---- MODULE Spec2Model ----
(***************************************************************************)
(* A model of the gd diff viewer (src/unnamed/part_000, the revision with  *)
(* the file tree panel, staged mode and the watch loop; src/diff.ts holds  *)
(* an earlier revision with the same two formatters).                      *)
(*                                                                         *)
(* A diff text is a sequence of lines.  A line is a record:                *)
(*   [k |-> "diff", a, b]           "diff --git a/<a> b/<b>"               *)
(*   [k |-> "meta", m]              "index ..", "--- ..", "+++ .." header  *)
(*   [k |-> "hunk", os, oc, ns, nc, fn]                                    *)
(*                                  "@@ -os[,oc] +ns[,nc] @@ fn"           *)
(*   [k |-> "raw", s]               any other line, s its characters       *)
(* Paths are sequences of segments ("a/b.txt" is <<"a", "b.txt">>).        *)
(***************************************************************************)
EXTENDS Integers, Sequences, FiniteSets, TLC

VARIABLES
    \* ---- the viewer (main) ----
    pc,              \* where main is: "viewer", "fetch", "prompt", "done"
    watchMode, stagedMode,
    currentDiff,
    sideBySide, scrollOffset, mouseEnabled, fileTreeVisible,
    wantCommit, shouldExit,
    cols, rows,      \* process.stdout.columns / rows (0: not a tty value)
    keyHandler,      \* how many handleKeypress listeners stdin has
    debounce,        \* a debounce timer is pending
    apiKey,          \* process.env.XAI_API_KEY is set
    term,            \* what the terminal was last told, and the listeners
    last,            \* the event handled last and the render calls it made
    \* ---- the formatters, applied to drawn inputs ----
    fdiff, fwidth, fres

uiVars == <<pc, watchMode, stagedMode, currentDiff, sideBySide, scrollOffset,
            mouseEnabled, fileTreeVisible, wantCommit, shouldExit, cols, rows,
            keyHandler, debounce, apiKey, term, last>>
fmtVars == <<fdiff, fwidth, fres>>
vars == <<pc, watchMode, stagedMode, currentDiff, sideBySide, scrollOffset,
          mouseEnabled, fileTreeVisible, wantCommit, shouldExit, cols, rows,
          keyHandler, debounce, apiKey, term, last, fdiff, fwidth, fres>>

Max(a, b) == IF a >= b THEN a ELSE b
Min(a, b) == IF a <= b THEN a ELSE b

(***************************************************************************)
(* Lines                                                                   *)
(***************************************************************************)
NoCount == 0 - 1

DiffLine(a, b) == [k |-> "diff", a |-> a, b |-> b]
MetaLine(m) == [k |-> "meta", m |-> m]
HunkLine(os, oc, ns, nc, fn) ==
    [k |-> "hunk", os |-> os, oc |-> oc, ns |-> ns, nc |-> nc, fn |-> fn]
RawLine(s) == [k |-> "raw", s |-> s]

\* line.startsWith("diff --git")
IsFileHeader(line) == line.k = "diff"

\* line.startsWith("@@")
IsHunkHeader(line) == line.k = "hunk"

\* /^(---|\+\+\+|index)/.test(line)
IsMetaLine(line) ==
    \/ line.k = "meta"
    \/ /\ line.k = "raw"
       /\ Len(line.s) >= 3
       /\ \/ SubSeq(line.s, 1, 3) = <<"-", "-", "-">>
          \/ SubSeq(line.s, 1, 3) = <<"+", "+", "+">>

\* line.startsWith(ch) for a one character ch
StartsWithChar(line, ch) ==
    CASE line.k = "raw" -> Len(line.s) > 0 /\ line.s[1] = ch
      [] line.k = "meta" -> (line.m = "---" /\ ch = "-") \/ (line.m = "+++" /\ ch = "+")
      [] OTHER -> FALSE

\* line.slice(1)
Slice1(line) ==
    CASE line.k = "raw" -> SubSeq(line.s, 2, Len(line.s))
      [] line.k = "meta" -> <<line.m>>
      [] OTHER -> <<>>

\* extractFileName: the right-hand (b/) path
extractFileName(line) == line.b

\* cleanHunkHeader: the text after the range marker, "" when none
cleanHunkHeader(line) == line.fn

\* ("" + n).length
RECURSIVE DigitsOf(_)
DigitsOf(n) == IF n < 10 THEN 1 ELSE 1 + DigitsOf(n \div 10)

\* s.slice(0, w): w chars from the left, or all but the last -w when w < 0
Slice0(s, w) ==
    SubSeq(s, 1, IF w >= 0 THEN Min(Len(s), w) ELSE Max(0, Len(s) + w))

\* the number of blanks s.padEnd(w) appends
PadEnd(s, w) == Max(0, w - Len(s))

\* the length of ("" + n).padStart(w)
PadStartLen(n, w) == Max(DigitsOf(n), w)

(***************************************************************************)
(* formatInline                                                            *)
(***************************************************************************)
NoNum == 0 - 1

\* A display line.  t: "blank" (the empty string), "divider", "file", "hunktext"
\* (cyan headings), "red" / "green" / "plain" (inline content, s the whole
\* line), "ctx" / "chg" (a side-by-side row).  A row holds, per side, the line
\* number (NoNum: blank gutter), the gutter's length, the content after
\* slice(0, w), the blanks padEnd added and whether a colour was applied.
NoLine ==
    [t |-> "blank", name |-> <<>>, txt |-> "", s |-> <<>>,
     lnum |-> NoNum, lw |-> 0, left |-> <<>>, lpad |-> 0, lcol |-> FALSE,
     rnum |-> NoNum, rw |-> 0, right |-> <<>>, rpad |-> 0, rcol |-> FALSE]
Blank == NoLine
Divider == [NoLine EXCEPT !.t = "divider"]
FileName(p) == [NoLine EXCEPT !.t = "file", !.name = p]
HunkText(x) == [NoLine EXCEPT !.t = "hunktext", !.txt = x]
Styled(c, s) == [NoLine EXCEPT !.t = c, !.s = s]

\* the flatMap callback: the display lines of one input line
InlineOf(line) ==
    IF IsFileHeader(line) THEN <<Blank, Divider, FileName(extractFileName(line))>>
    ELSE IF IsHunkHeader(line)
         THEN IF cleanHunkHeader(line) # "" THEN <<HunkText(cleanHunkHeader(line))>>
              ELSE <<>>
    ELSE IF StartsWithChar(line, "-") THEN <<Styled("red", line.s)>>
    ELSE IF StartsWithChar(line, "+") THEN <<Styled("green", line.s)>>
    ELSE IF line.k = "raw" /\ line.s = <<>> THEN <<Blank>>
    ELSE <<Styled("plain", line.s)>>

\* l !== "" : only the empty string is dropped
NotEmptyString(d) == d.t # "blank"

RECURSIVE FlatMapInline(_, _)
FlatMapInline(lines, i) ==
    IF i > Len(lines) THEN <<>>
    ELSE (IF IsMetaLine(lines[i]) THEN <<>> ELSE InlineOf(lines[i]))
         \o FlatMapInline(lines, i + 1)

formatInline(diffText, width) ==
    SelectSeq(FlatMapInline(diffText, 1), NotEmptyString)

(***************************************************************************)
(* formatSideBySide                                                        *)
(***************************************************************************)
\* a missing count taken as 0
CountOr0(c) == IF c # NoCount THEN c ELSE 0

\* the count of a range marker: hh[2] ? parseInt(hh[2]) : 1
CountOr1(c) == IF c # NoCount THEN c ELSE 1

\* the first loop: the maximum of start + count over the range markers
RECURSIVE MaxLine(_, _, _)
MaxLine(lines, i, old) ==
    IF i > Len(lines) THEN 0
    ELSE LET l == lines[i]
             here == IF l.k # "hunk" THEN 0
                     ELSE IF old THEN l.os + CountOr1(l.oc)
                     ELSE l.ns + CountOr1(l.nc)
         IN  Max(here, MaxLine(lines, i + 1, old))

\* the fixed characters of a row besides gutters and columns, as the code
\* budgets them: numColWidth = digitsOld + digitsNew + 4, contentW = w - numColWidth - 3
NumColExtra == 4
SeparatorBudget == 3

\* Geometry with the right column as wide as the left one (the remainder lost)
GeometryNoRemainder(lines, terminalWidth) ==
    LET maxOldLine == MaxLine(lines, 1, TRUE)
        maxNewLine == MaxLine(lines, 1, FALSE)
        digitsOld == DigitsOf(IF maxOldLine = 0 THEN 1 ELSE maxOldLine)
        digitsNew == DigitsOf(IF maxNewLine = 0 THEN 1 ELSE maxNewLine)
        numColWidth == digitsOld + digitsNew + NumColExtra
        contentW == terminalWidth - numColWidth - SeparatorBudget
        leftW == contentW \div 2
    IN  [digitsOld |-> digitsOld, digitsNew |-> digitsNew, contentW |-> contentW,
         leftW |-> leftW, rightW |-> leftW]

\* Geometry with the remainder given to the left column
GeometryCeil(lines, terminalWidth) ==
    LET maxOldLine == MaxLine(lines, 1, TRUE)
        maxNewLine == MaxLine(lines, 1, FALSE)
        digitsOld == DigitsOf(IF maxOldLine = 0 THEN 1 ELSE maxOldLine)
        digitsNew == DigitsOf(IF maxNewLine = 0 THEN 1 ELSE maxNewLine)
        numColWidth == digitsOld + digitsNew + NumColExtra
        contentW == terminalWidth - numColWidth - SeparatorBudget
        leftW == (contentW + 1) \div 2
    IN  [digitsOld |-> digitsOld, digitsNew |-> digitsNew, contentW |-> contentW,
         leftW |-> leftW, rightW |-> contentW - leftW]

Geometry(lines, terminalWidth) ==
    LET maxOldLine == MaxLine(lines, 1, TRUE)
        maxNewLine == MaxLine(lines, 1, FALSE)
        digitsOld == DigitsOf(IF maxOldLine = 0 THEN 1 ELSE maxOldLine)
        digitsNew == DigitsOf(IF maxNewLine = 0 THEN 1 ELSE maxNewLine)
        numColWidth == digitsOld + digitsNew + NumColExtra
        contentW == terminalWidth - numColWidth - SeparatorBudget
        leftW == contentW \div 2
    IN  [digitsOld |-> digitsOld, digitsNew |-> digitsNew, contentW |-> contentW,
         leftW |-> leftW, rightW |-> contentW - leftW]

\* `${old} ${content} | ${new} ${content}` of a context line
CtxRow(content, currOld, currNew, g) ==
    LET l == Slice0(content, g.leftW)
        r == Slice0(content, g.rightW)
    IN  [NoLine EXCEPT !.t = "ctx",
            !.lnum = currOld, !.lw = PadStartLen(currOld, g.digitsOld),
            !.left = l, !.lpad = PadEnd(l, g.leftW),
            !.rnum = currNew, !.rw = PadStartLen(currNew, g.digitsNew),
            !.right = r, !.rpad = PadEnd(r, g.rightW)]

\* ChgRow with the counters not advanced inside a block
ChgRowSameNumber(d, a, j, currOld, currNew, g) ==
    LET hasL == j < Len(d)
        hasR == j < Len(a)
        dl == IF hasL THEN d[j + 1] ELSE <<>>
        ar == IF hasR THEN a[j + 1] ELSE <<>>
        l == Slice0(dl, g.leftW)
        r == Slice0(ar, g.rightW)
    IN  [NoLine EXCEPT !.t = "chg",
            !.lnum = IF hasL THEN currOld ELSE NoNum,
            !.lw = IF hasL THEN PadStartLen(currOld, g.digitsOld) ELSE g.digitsOld,
            !.left = l, !.lpad = PadEnd(l, g.leftW), !.lcol = (dl # <<>>),
            !.rnum = IF hasR THEN currNew ELSE NoNum,
            !.rw = IF hasR THEN PadStartLen(currNew, g.digitsNew) ELSE g.digitsNew,
            !.right = r, !.rpad = PadEnd(r, g.rightW), !.rcol = (ar # <<>>)]

\* row j (from 0) of a block of removed lines d and added lines a
ChgRow(d, a, j, currOld, currNew, g) ==
    LET hasL == j < Len(d)
        hasR == j < Len(a)
        dl == IF hasL THEN d[j + 1] ELSE <<>>
        ar == IF hasR THEN a[j + 1] ELSE <<>>
        l == Slice0(dl, g.leftW)
        r == Slice0(ar, g.rightW)
    IN  [NoLine EXCEPT !.t = "chg",
            !.lnum = IF hasL THEN currOld + j ELSE NoNum,
            !.lw = IF hasL THEN PadStartLen(currOld + j, g.digitsOld) ELSE g.digitsOld,
            !.left = l, !.lpad = PadEnd(l, g.leftW), !.lcol = (dl # <<>>),
            !.rnum = IF hasR THEN currNew + j ELSE NoNum,
            !.rw = IF hasR THEN PadStartLen(currNew + j, g.digitsNew) ELSE g.digitsNew,
            !.right = r, !.rpad = PadEnd(r, g.rightW), !.rcol = (ar # <<>>)]

\* RunLen with an if for the while: a run is one line at most
RunLenOne(lines, i, ch) ==
    IF i <= Len(lines) /\ StartsWithChar(lines[i], ch) THEN 1 ELSE 0

\* while (i < lines.length && lines[i].startsWith(ch)) ...: the run's length
RECURSIVE RunLen(_, _, _)
RunLen(lines, i, ch) ==
    IF i <= Len(lines) /\ StartsWithChar(lines[i], ch)
    THEN 1 + RunLen(lines, i + 1, ch) ELSE 0

\* the body of a hunk, from line i: the next i and the rows pushed
RECURSIVE SbsHunk(_, _, _, _, _, _)
SbsHunk(lines, i, currOld, currNew, g, out) ==
    IF i > Len(lines) \/ IsFileHeader(lines[i]) \/ IsHunkHeader(lines[i])
    THEN [i |-> i, out |-> out]
    ELSE IF StartsWithChar(lines[i], " ")
    THEN SbsHunk(lines, i + 1, currOld + 1, currNew + 1, g,
                 Append(out, CtxRow(Slice1(lines[i]), currOld, currNew, g)))
    ELSE IF StartsWithChar(lines[i], "-") \/ StartsWithChar(lines[i], "+")
    THEN LET nd == RunLen(lines, i, "-")
             na == RunLen(lines, i + nd, "+")
             d == [j \in 1..nd |-> Slice1(lines[i + j - 1])]
             a == [j \in 1..na |-> Slice1(lines[i + nd + j - 1])]
             blk == [j \in 1..Max(nd, na) |-> ChgRow(d, a, j - 1, currOld, currNew, g)]
         IN  SbsHunk(lines, i + nd + na, currOld + nd, currNew + na, g, out \o blk)
    ELSE SbsHunk(lines, i + 1, currOld, currNew, g, out)

\* the outer while loop, from line i
RECURSIVE SbsTop(_, _, _, _)
SbsTop(lines, i, g, out) ==
    IF i > Len(lines) THEN out
    ELSE LET line == lines[i] IN
         IF IsFileHeader(line)
         THEN SbsTop(lines, i + 1, g,
                     out \o <<Blank, Divider, FileName(extractFileName(line))>>)
         ELSE IF IsMetaLine(line) THEN SbsTop(lines, i + 1, g, out)
         ELSE IF IsHunkHeader(line)
         THEN LET cleaned == cleanHunkHeader(line)
                  o1 == IF cleaned # "" THEN Append(out, HunkText(cleaned)) ELSE out
                  h == SbsHunk(lines, i + 1, line.os, line.ns, g, o1)
              IN  SbsTop(lines, h.i, g, h.out)
         ELSE SbsTop(lines, i + 1, g, out)

formatSideBySide(diffText, terminalWidth) ==
    SbsTop(diffText, 1, Geometry(diffText, terminalWidth), <<>>)

\* the characters of a row as written, colour codes aside
VisibleWidth(row) ==
    row.lw + 1 + Len(row.left) + row.lpad + 3 + row.rw + 1 + Len(row.right) + row.rpad

(***************************************************************************)
(* Inputs of the formatters                                                *)
(***************************************************************************)
MaxBody == 3

\* the first character of a line inside a hunk: context, removed, added, or
\* something else ("\ No newline at end of file")
Markers == {" ", "-", "+", "\\"}

\* what follows it: nothing, "--" (a removed "-- x" reads "--- x"), a text
\* longer than a narrow column
Contents == {<<>>, <<"-", "-">>, <<"x", "y", "z">>}

BodyLines == {RawLine(<<m>> \o c) : m \in Markers, c \in Contents}

Bodies(n) == UNION {[1..k -> BodyLines] : k \in 0..n}

\* range markers: the fixture's, one without counts and with a function name,
\* one whose counts are smaller than the body may be, one of a new file
HunkHeaders ==
    {HunkLine(1, 2, 1, 2, ""), HunkLine(9, NoCount, 9, NoCount, "fn"),
     HunkLine(8, 1, 98, 1, ""), HunkLine(0, 0, 1, 3, "")}

PathF == <<"a", "b.txt">>

Preambles ==
    {<<>>, <<DiffLine(PathF, PathF), MetaLine("index"), MetaLine("---"), MetaLine("+++")>>}

NoChanges == <<RawLine(<<"n", "o", " ", "c", "h", "a", "n", "g", "e", "s">>)>>

OneHunkDiffs ==
    {p \o <<h>> \o b : p \in Preambles, h \in HunkHeaders, b \in Bodies(MaxBody)}

TwoHunkDiffs ==
    {<<h1, l1, h2, l2>> : h1 \in HunkHeaders, h2 \in HunkHeaders,
                          l1 \in BodyLines, l2 \in BodyLines}

DiffSpace == OneHunkDiffs \cup TwoHunkDiffs \cup {NoChanges}

\* terminal widths: too narrow for any column, narrow, odd and even, wide
Widths == {8, 12, 13, 16}

NoResult == [op |-> "none", out |-> <<>>]

\* the watcher's timers: debounce is the id setTimeout returned last (0:
\* null), pending the ids of the timers that have not fired
NoTimers == [id |-> 0, pending |-> {}]

\* the terminal and the listeners before main sets them up, and after it
\* restored them: raw mode, alternate buffer, hidden cursor, mouse reporting,
\* the file watcher, the resize and the data listener
TermOff ==
    [raw |-> FALSE, alt |-> FALSE, hidden |-> FALSE, mouse |-> FALSE,
     watcher |-> FALSE, resizeL |-> FALSE, dataL |-> FALSE]

RunInline ==
    /\ fres.op = "none"
    /\ fres' = [op |-> "inline", out |-> formatInline(fdiff, fwidth)]
    /\ UNCHANGED <<fdiff, fwidth>>

RunSideBySide ==
    /\ fres.op = "none"
    /\ fres' = [op |-> "sbs", out |-> formatSideBySide(fdiff, fwidth)]
    /\ UNCHANGED <<fdiff, fwidth>>

\* the inputs are drawn; the viewer is not running
FmtInit ==
    /\ fdiff \in DiffSpace
    /\ fwidth \in Widths
    /\ fres = NoResult
    /\ pc = "done" /\ watchMode = FALSE /\ stagedMode = FALSE
    /\ currentDiff = NoChanges
    /\ sideBySide = FALSE /\ scrollOffset = 0 /\ mouseEnabled = TRUE
    /\ fileTreeVisible = TRUE /\ wantCommit = FALSE /\ shouldExit = FALSE
    /\ cols = 0 /\ rows = 0 /\ keyHandler = 0 /\ debounce = NoTimers
    /\ apiKey = FALSE /\ term = TermOff
    /\ last = [ev |-> "start", arg |-> "", renders |-> 0]

FmtNext ==
    \/ RunInline /\ UNCHANGED uiVars
    \/ RunSideBySide /\ UNCHANGED uiVars

SpecFmt == FmtInit /\ [][FmtNext]_vars

(***************************************************************************)
(* Properties of the formatters (checked under SpecFmt)                    *)
(***************************************************************************)
IsRow(d) == d.t \in {"ctx", "chg"}
RowsOf(out) == SelectSeq(out, IsRow)

\* the index after the last body line of the hunk whose marker is line i
RECURSIVE BodyEnd(_, _)
BodyEnd(lines, i) ==
    IF i + 1 > Len(lines) \/ lines[i + 1].k \in {"diff", "hunk"} THEN i + 1
    ELSE BodyEnd(lines, i + 1)

HunkIdx(lines) == {i \in 1..Len(lines) : lines[i].k = "hunk"}
BodyIdx(lines, i) == (i + 1)..(BodyEnd(lines, i) - 1)
FirstIs(l, ch) == l.k = "raw" /\ Len(l.s) > 0 /\ l.s[1] = ch
ContentIdx(lines) ==
    {j \in 1..Len(lines) : /\ \E i \in HunkIdx(lines) : j \in BodyIdx(lines, i)
                           /\ \E ch \in {" ", "-", "+"} : FirstIs(lines[j], ch)}

RECURSIVE SumOver(_, _)
SumOver(f, n) == IF n = 0 THEN 0 ELSE f[n] + SumOver(f, n - 1)
CountIn(seq, P(_)) == Cardinality({i \in 1..Len(seq) : P(seq[i])})

FitsGutters(row, g) ==
    /\ row.lnum # NoNum => DigitsOf(row.lnum) <= g.digitsOld
    /\ row.rnum # NoNum => DigitsOf(row.rnum) <= g.digitsNew

\* C7 as claimed: in side-by-side layout, at every terminal width that leaves
\* room for the columns (contentW >= 0), every content row is exactly as wide
\* as the terminal.
C7_RowWidthIsTerminalWidth ==
    (fres.op = "sbs" /\ Geometry(fdiff, fwidth).contentW >= 0) =>
        \A i \in 1..Len(fres.out) :
            IsRow(fres.out[i]) => VisibleWidth(fres.out[i]) = fwidth

\* C7 amended: at every terminal width with contentW >= 0, every content row
\* whose line numbers fit their gutters is exactly terminal width - 2 wide
\* (gutters + columns + the 5 fixed characters; the code budgets 7), and the
\* widths of its parts are the gutter and column widths.
C7_RowWidthIsTerminalWidthMinus2 ==
    (fres.op = "sbs" /\ Geometry(fdiff, fwidth).contentW >= 0) =>
        LET g == Geometry(fdiff, fwidth) IN
        \A i \in 1..Len(fres.out) :
            (IsRow(fres.out[i]) /\ FitsGutters(fres.out[i], g)) =>
                /\ VisibleWidth(fres.out[i]) = fwidth - 2
                /\ fres.out[i].lw = g.digitsOld /\ fres.out[i].rw = g.digitsNew
                /\ Len(fres.out[i].left) + fres.out[i].lpad
                     + Len(fres.out[i].right) + fres.out[i].rpad
                   = fwidth - g.digitsOld - g.digitsNew - 7

\* C7 witness: a side-by-side result at a usable width with a row whose left
\* content was truncated and whose right side was padded.
C7_Witness ==
    /\ fres.op = "sbs" /\ Geometry(fdiff, fwidth).contentW >= 0
    /\ \E i \in 1..Len(fres.out) :
          /\ fres.out[i].t = "chg" /\ fres.out[i].lnum # NoNum
          /\ Len(fres.out[i].left) = Geometry(fdiff, fwidth).leftW
          /\ Len(fres.out[i].left) < 3
          /\ fres.out[i].rpad > 0
          /\ VisibleWidth(fres.out[i]) = fwidth - 2

InlineContent(d) ==
    d.t \in {"red", "green"} \/ (d.t = "plain" /\ d.s # <<>> /\ d.s[1] = " ")
SbsCells(out) ==
    SumOver([i \in 1..Len(out) |->
                IF out[i].t = "ctx" THEN 1
                ELSE IF out[i].t = "chg"
                     THEN (IF out[i].lnum # NoNum THEN 1 ELSE 0)
                          + (IF out[i].rnum # NoNum THEN 1 ELSE 0)
                ELSE 0], Len(out))

\* C8 as claimed: no content line is dropped by either formatter: the inline
\* output has one display line per context, removed and added line of the
\* hunks, the side-by-side output one row side per such line, so the two
\* counts agree.
C8_NoContentLineDropped ==
    LET n == Cardinality(ContentIdx(fdiff)) IN
    /\ fres.op = "inline" =>
          /\ CountIn(fres.out, InlineContent) = n
          /\ CountIn(fres.out, InlineContent) = SbsCells(formatSideBySide(fdiff, fwidth))
    /\ fres.op = "sbs" => SbsCells(fres.out) = n

\* the populated old (new) line numbers of rows, in order
OldNums(rs) == LET P(d) == d.lnum # NoNum
                   s == SelectSeq(rs, P)
               IN  [i \in 1..Len(s) |-> s[i].lnum]
NewNums(rs) == LET P(d) == d.rnum # NoNum
                   s == SelectSeq(rs, P)
               IN  [i \in 1..Len(s) |-> s[i].rnum]

\* the rows of the hunk at line i: those after the rows of the hunks before it
RowsBefore(lines, i, g) ==
    LET f == [j \in 1..Len(lines) |->
                 IF j < i /\ lines[j].k = "hunk"
                 THEN Len(SbsHunk(lines, j + 1, lines[j].os, lines[j].ns, g, <<>>).out)
                 ELSE 0]
    IN  SumOver(f, Len(lines))
HunkRows(out, lines, i, g) ==
    LET n == Len(SbsHunk(lines, i + 1, lines[i].os, lines[i].ns, g, <<>>).out)
        b == RowsBefore(lines, i, g)
    IN  SubSeq(RowsOf(out), b + 1, b + n)
OldConsuming(lines, i) ==
    Cardinality({j \in BodyIdx(lines, i) : FirstIs(lines[j], " ") \/ FirstIs(lines[j], "-")})
NewConsuming(lines, i) ==
    Cardinality({j \in BodyIdx(lines, i) : FirstIs(lines[j], " ") \/ FirstIs(lines[j], "+")})

\* C9: in the side-by-side layout (the one that shows line numbers), within
\* every hunk the old numbers on the rows with a populated old gutter are the
\* header's old start, start + 1, ... : one per context or removed line, so
\* strictly increasing; the same for the new numbers with context and added
\* lines; a context row carries both numbers.
C9_LineNumbersIncreaseFromStart ==
    fres.op = "sbs" =>
        LET g == Geometry(fdiff, fwidth)
            all == RowsOf(fres.out)
        IN  /\ \A i \in HunkIdx(fdiff) :
                  LET rs == HunkRows(fres.out, fdiff, i, g)
                      o == OldNums(rs)
                      n == NewNums(rs)
                  IN  /\ Len(o) = OldConsuming(fdiff, i)
                      /\ Len(n) = NewConsuming(fdiff, i)
                      /\ \A k \in 1..Len(o) : o[k] = fdiff[i].os + k - 1
                      /\ \A k \in 1..Len(n) : n[k] = fdiff[i].ns + k - 1
                      /\ \A k \in 1..Len(rs) :
                            rs[k].t = "ctx" => rs[k].lnum # NoNum /\ rs[k].rnum # NoNum
            /\ Len(all) = SumOver([j \in 1..Len(fdiff) |->
                              IF fdiff[j].k = "hunk"
                              THEN Len(HunkRows(fres.out, fdiff, j, g)) ELSE 0],
                              Len(fdiff))

\* C9 witness: a two-hunk diff rendered side by side whose second hunk starts
\* below the first one's numbers.
C9_Witness ==
    /\ fres.op = "sbs"
    /\ Cardinality(HunkIdx(fdiff)) = 2
    /\ fdiff[1].os = 9 /\ fdiff[3].os = 1
    /\ OldNums(RowsOf(fres.out)) = <<9, 1>>
    /\ NewNums(RowsOf(fres.out)) = <<9>>

\* the number of lines of seq from position i on that start with ch
RECURSIVE Lead(_, _, _)
Lead(seq, i, ch) ==
    IF i <= Len(seq) /\ FirstIs(seq[i], ch) THEN 1 + Lead(seq, i + 1, ch) ELSE 0

\* the first min(Len(s), w) characters of s
Prefix(s, w) == SubSeq(s, 1, Min(Len(s), w))

Fixture ==
    <<HunkLine(1, 2, 1, 2, ""), RawLine(<<" ", "x", "y", "z">>),
      RawLine(<<"-", "x", "y", "z">>), RawLine(<<"+", "x", "y", "z">>)>>

\* C10: in side-by-side layout a hunk body of c context lines, then r removed
\* lines, then a added lines gives c context rows and max(r, a) change rows;
\* change row j (from 0) has the j-th removed line and its old number on the
\* left iff j < r, else a blank gutter and blank content, and the j-th added
\* line and its new number on the right iff j < a, else blank.  The fixture
\* (@@ -1,2 +1,2 @@, context, removed, added) gives a context row 1|1 and one
\* paired row 2|2.
C10_PairedRuns ==
    (fres.op = "sbs" /\ Cardinality(HunkIdx(fdiff)) = 1) =>
        LET i == CHOOSE x \in HunkIdx(fdiff) : TRUE
            body == SubSeq(fdiff, i + 1, Len(fdiff))
            c == Lead(body, 1, " ")
            r == Lead(body, c + 1, "-")
            a == Lead(body, c + r + 1, "+")
            g == Geometry(fdiff, fwidth)
            rs == RowsOf(fres.out)
        IN  /\ (c + r + a = Len(body)) =>
                /\ Len(rs) = c + Max(r, a)
                /\ \A j \in 0..(Max(r, a) - 1) :
                      LET row == rs[c + j + 1] IN
                      /\ row.t = "chg"
                      /\ (j < r) <=> (row.lnum # NoNum)
                      /\ (j < a) <=> (row.rnum # NoNum)
                      /\ j < r =>
                            /\ row.lnum = fdiff[i].os + c + j
                            /\ g.leftW >= 0 =>
                                  row.left = Prefix(Tail(body[c + j + 1].s), g.leftW)
                      /\ j >= r => (row.left = <<>> /\ row.lw = g.digitsOld /\ ~row.lcol)
                      /\ j < a =>
                            /\ row.rnum = fdiff[i].ns + c + j
                            /\ g.rightW >= 0 =>
                                  row.right = Prefix(Tail(body[c + r + j + 1].s), g.rightW)
                      /\ j >= a => (row.right = <<>> /\ row.rw = g.digitsNew /\ ~row.rcol)
            /\ fdiff = Fixture =>
                /\ Len(fres.out) = 2
                /\ fres.out[1].t = "ctx" /\ fres.out[1].lnum = 1 /\ fres.out[1].rnum = 1
                /\ fres.out[2].t = "chg" /\ fres.out[2].lnum = 2 /\ fres.out[2].rnum = 2

\* C10 witness: two removed lines followed by one added line, rendered side by
\* side as two rows, the second with a blank right side.
C10_Witness ==
    /\ fres.op = "sbs" /\ Cardinality(HunkIdx(fdiff)) = 1 /\ fdiff[1].k = "hunk"
    /\ Len(fdiff) = 4
    /\ FirstIs(fdiff[2], "-") /\ FirstIs(fdiff[3], "-") /\ FirstIs(fdiff[4], "+")
    /\ Len(fres.out) = 2
    /\ fres.out[1].lnum # NoNum /\ fres.out[1].rnum # NoNum
    /\ fres.out[2].lnum # NoNum /\ fres.out[2].rnum = NoNum /\ fres.out[2].right = <<>>

\* C23: at every terminal width with contentW >= 0 the columns are
\* leftW = floor(contentW / 2) and rightW = contentW - leftW, the right one
\* at most 1 wider, and every row fills exactly these columns
C23_ColumnsSumToContentWidth ==
    (fres.op = "sbs" /\ Geometry(fdiff, fwidth).contentW >= 0) =>
        LET g == Geometry(fdiff, fwidth) IN
        /\ g.leftW + g.rightW = g.contentW
        /\ 2 * g.leftW <= g.contentW /\ g.contentW < 2 * g.leftW + 2
        /\ 0 <= g.rightW - g.leftW /\ g.rightW - g.leftW <= 1
        /\ \A i \in 1..Len(fres.out) :
              IsRow(fres.out[i]) =>
                  /\ Len(fres.out[i].left) + fres.out[i].lpad = g.leftW
                  /\ Len(fres.out[i].right) + fres.out[i].rpad = g.rightW
                  /\ Len(fres.out[i].left) + fres.out[i].lpad
                       + Len(fres.out[i].right) + fres.out[i].rpad
                     = fwidth - g.digitsOld - g.digitsNew - 7

\* an odd content width: the right column holds a text the left one cuts
C23_Witness ==
    /\ fres.op = "sbs" /\ Geometry(fdiff, fwidth).contentW = 7
    /\ \E i \in 1..Len(fres.out) :
          /\ fres.out[i].t = "ctx"
          /\ Len(fres.out[i].left) = 3 /\ fres.out[i].lpad = 0
          /\ Len(fres.out[i].right) = 3 /\ fres.out[i].rpad = 1

\* the digits of the largest start + count of the range markers, a missing
\* count being 1, and 1 when there is no marker or the largest is 0
GutterDigits(lines, old) ==
    LET S == {(IF old THEN lines[i].os ELSE lines[i].ns)
                + (IF (IF old THEN lines[i].oc ELSE lines[i].nc) = NoCount THEN 1
                   ELSE (IF old THEN lines[i].oc ELSE lines[i].nc)) : i \in HunkIdx(lines)}
        m == IF S = {} THEN 0 ELSE CHOOSE x \in S : \A y \in S : y <= x
    IN  DigitsOf(IF m = 0 THEN 1 ELSE m)

Declared(c) == IF c = NoCount THEN 1 ELSE c

UnrecognizedIdx(lines) ==
    {j \in 1..Len(lines) :
        lines[j].k = "raw" /\ ~IsMetaLine(lines[j]) /\ j \notin ContentIdx(lines)}

ShownVerbatim(out, l) ==
    \E i \in 1..Len(out) : out[i].t \in {"plain", "red", "green"} /\ out[i].s = l.s

\* C11 as claimed: in both layouts every unrecognized line of the diff text is
\* a display line, verbatim
C11_UnrecognizedShownVerbatim ==
    fres.op # "none" =>
        \A j \in UnrecognizedIdx(fdiff) : ShownVerbatim(fres.out, fdiff[j])

IsHeading(d) == d.t \in {"blank", "divider", "file", "hunktext"}

\* the header lines the claim gives: per file header a blank line, a divider
\* and the right-hand path, per range marker its trailing text if any
RECURSIVE HeadersOf(_, _)
HeadersOf(lines, i) ==
    IF i > Len(lines) THEN <<>>
    ELSE (IF lines[i].k = "diff" THEN <<Blank, Divider, FileName(lines[i].b)>>
          ELSE IF lines[i].k = "hunk" /\ lines[i].fn # "" THEN <<HunkText(lines[i].fn)>>
          ELSE <<>>) \o HeadersOf(lines, i + 1)

\* C12 as claimed: both formatters emit the same header lines in the same
\* order: blank line, divider, file name for a file header, the trailing text
\* (or nothing) for a range marker
C12_SameHeaderLines ==
    fres.op # "none" => SelectSeq(fres.out, IsHeading) = HeadersOf(fdiff, 1)

(***************************************************************************)
(* The viewer: main of src/unnamed/part_000                                *)
(***************************************************************************)
\* extractFiles: the file names of the file headers, in order
RECURSIVE extractFiles(_, _)
extractFiles(lines, i) ==
    IF i > Len(lines) THEN <<>>
    ELSE (IF IsFileHeader(lines[i]) THEN <<extractFileName(lines[i])>> ELSE <<>>)
         \o extractFiles(lines, i + 1)

\* the names of the model's path segments in the order Array.sort() gives
SegOrder == <<"a", "b.txt", "c.txt", "d.txt">>

IsPrefixOf(p, q) == Len(p) <= Len(q) /\ SubSeq(q, 1, Len(p)) = p

\* the inner loop of renderFileTree: one file's parts put into the tree, a set
\* of nodes [path, leaf].  The last part is assigned null (whatever was there
\* is replaced); an earlier part that is missing or null becomes {}.
RECURSIVE InsertParts(_, _, _)
InsertParts(tree, parts, i) ==
    IF i > Len(parts) THEN tree
    ELSE LET q == SubSeq(parts, 1, i) IN
         IF i = Len(parts)
         THEN (tree \ {n \in tree : IsPrefixOf(q, n.path)})
                  \cup {[path |-> q, leaf |-> TRUE]}
         ELSE IF \E n \in tree : n.path = q /\ ~n.leaf
         THEN InsertParts(tree, parts, i + 1)
         ELSE InsertParts((tree \ {n \in tree : n.path = q})
                              \cup {[path |-> q, leaf |-> FALSE]}, parts, i + 1)

RECURSIVE BuildTree(_, _, _)
BuildTree(tree, files, i) ==
    IF i > Len(files) THEN tree
    ELSE BuildTree(InsertParts(tree, files[i], 1), files, i + 1)

\* Object.keys(node).sort() of the node at path q
SortedKeys(tree, q) ==
    LET names == {n.path[Len(n.path)] :
                     n \in {m \in tree : Len(m.path) = Len(q) + 1 /\ IsPrefixOf(q, m.path)}}
        In(x) == x \in names
    IN  SelectSeq(SegOrder, In)

\* renderNode: a line is the guides of its ancestors (TRUE: blanks, under a
\* last sibling; FALSE: a vertical guide), its connector and its key
RECURSIVE renderNode(_, _, _, _)
renderNode(tree, q, prefix, idx) ==
    LET keys == SortedKeys(tree, q) IN
    IF idx > Len(keys) THEN <<>>
    ELSE LET isLastKey == idx = Len(keys)
             child == Append(q, keys[idx])
             line == [guides |-> prefix, last |-> isLastKey, key |-> keys[idx]]
             below == IF \E n \in tree : n.path = child /\ ~n.leaf
                      THEN renderNode(tree, child, Append(prefix, isLastKey), 1)
                      ELSE <<>>
         IN  <<line>> \o below \o renderNode(tree, q, prefix, idx + 1)

renderFileTree(files) == renderNode(BuildTree({}, files, 1), <<>>, <<>>, 1)

(***************************************************************************)
(* renderFileTree applied to the file headers of a diff (SpecTree)         *)
(***************************************************************************)
MaxFiles == 3

\* changed paths: the fixture's three, a file at the root, a deeper one, and a
\* file that has the name of a directory (a deleted where a/... was added)
Paths ==
    {<<"a", "b.txt">>, <<"a", "c.txt">>, <<"d.txt">>, <<"b.txt">>,
     <<"a", "a", "c.txt">>, <<"a">>}

TreeDiffs ==
    UNION {{[i \in 1..n |-> DiffLine(f[i], f[i])] : f \in [1..n -> Paths]} : n \in 0..MaxFiles}

RunFileTree ==
    /\ fres.op = "none"
    /\ fres' = [op |-> "tree", out |-> renderFileTree(extractFiles(fdiff, 1))]
    /\ UNCHANGED <<fdiff, fwidth>>

TreeInit ==
    /\ fdiff \in TreeDiffs
    /\ fwidth = 8
    /\ fres = NoResult
    /\ pc = "done" /\ watchMode = FALSE /\ stagedMode = FALSE
    /\ currentDiff = NoChanges
    /\ sideBySide = FALSE /\ scrollOffset = 0 /\ mouseEnabled = TRUE
    /\ fileTreeVisible = TRUE /\ wantCommit = FALSE /\ shouldExit = FALSE
    /\ cols = 0 /\ rows = 0 /\ keyHandler = 0 /\ debounce = NoTimers
    /\ apiKey = FALSE /\ term = TermOff
    /\ last = [ev |-> "start", arg |-> "", renders |-> 0]

TreeNext == RunFileTree /\ UNCHANGED uiVars

SpecTree == TreeInit /\ [][TreeNext]_vars

\* the row above row i that is its parent: the nearest one less deep; 0 at
\* the root
ParentRow(out, i) ==
    LET up == {j \in 1..(i - 1) : Len(out[j].guides) < Len(out[i].guides)} IN
    IF up = {} THEN 0 ELSE CHOOSE j \in up : \A k \in up : k <= j

RECURSIVE RowPath(_, _)
RowPath(out, i) ==
    IF i = 0 THEN <<>> ELSE Append(RowPath(out, ParentRow(out, i)), out[i].key)

SegRank(x) == CHOOSE n \in 1..Len(SegOrder) : SegOrder[n] = x

FilesOf(lines) == {lines[i].b : i \in 1..Len(lines)}
DirPrefixes(lines) ==
    UNION {{SubSeq(f, 1, n) : n \in 1..(Len(f) - 1)} : f \in FilesOf(lines)}

TreeFixture ==
    <<DiffLine(<<"a", "b.txt">>, <<"a", "b.txt">>),
      DiffLine(<<"a", "c.txt">>, <<"a", "c.txt">>),
      DiffLine(<<"d.txt">>, <<"d.txt">>)>>

\* the rows are one per directory prefix and one per file, depth first, the
\* siblings in lexicographic order, the connectors and guides as claimed
TreeRowsAsClaimed(out, lines) ==
    /\ Len(out) = Cardinality(DirPrefixes(lines)) + Cardinality(FilesOf(lines))
    /\ {RowPath(out, i) : i \in 1..Len(out)} = DirPrefixes(lines) \cup FilesOf(lines)
    /\ \A i \in 1..Len(out) :
          LET p == ParentRow(out, i)
              later == {j \in (i + 1)..Len(out) : ParentRow(out, j) = p}
          IN  /\ p = 0 => Len(out[i].guides) = 0
              /\ p # 0 => /\ p < i /\ \A j \in p..i : j # p => Len(out[j].guides) > Len(out[p].guides)
                          /\ out[i].guides = Append(out[p].guides, out[p].last)
              /\ out[i].last = (later = {})
              /\ \A j \in later : SegRank(out[i].key) < SegRank(out[j].key)

\* C13 as claimed: the tree lists one row per distinct directory prefix and
\* one per file, depth first, siblings in lexicographic order, last siblings
\* with the last connector, guides per non-last ancestor; for a/b.txt,
\* a/c.txt, d.txt the rows are a, b.txt, c.txt (last under a), d.txt (last)
C13_FileTreeRows ==
    fres.op = "tree" =>
        /\ TreeRowsAsClaimed(fres.out, fdiff)
        /\ fdiff = TreeFixture =>
              fres.out = <<[guides |-> <<>>, last |-> FALSE, key |-> "a"],
                           [guides |-> <<FALSE>>, last |-> FALSE, key |-> "b.txt"],
                           [guides |-> <<FALSE>>, last |-> TRUE, key |-> "c.txt"],
                           [guides |-> <<>>, last |-> TRUE, key |-> "d.txt"]>>

\* the diffs git prints in the model: nothing, one file with the fixture's
\* hunk, two files with paired changes and a "\ No newline" line
PoolOne ==
    <<DiffLine(PathF, PathF), MetaLine("index"), MetaLine("---"), MetaLine("+++"),
      HunkLine(1, 2, 1, 2, "fn"), RawLine(<<" ", "x", "y", "z">>),
      RawLine(<<"-", "x", "y", "z">>), RawLine(<<"+", "x", "y", "z">>)>>
PoolTwo ==
    <<DiffLine(PathF, PathF), MetaLine("index"), MetaLine("---"), MetaLine("+++"),
      HunkLine(1, 3, 1, 3, ""),
      RawLine(<<"-", "x">>), RawLine(<<"+", "y">>), RawLine(<<"-", "x">>),
      RawLine(<<"+", "y">>), RawLine(<<"-", "x">>), RawLine(<<"+", "y">>),
      RawLine(<<"\\", "x">>),
      DiffLine(<<"d.txt">>, <<"d.txt">>), MetaLine("index"), MetaLine("---"),
      MetaLine("+++"), HunkLine(0, 0, 1, 2, ""),
      RawLine(<<"+", "x">>), RawLine(<<"+", "y">>)>>
DiffPool == {NoChanges, PoolOne, PoolTwo}

\* terminal sizes <<columns, rows>>; 0: the property is not set
Sizes == {<<0, 0>>, <<16, 4>>, <<16, 8>>}

\* the runs: <<--watch, --staged, XAI_API_KEY is set>>
Configs ==
    {<<FALSE, FALSE, FALSE>>, <<TRUE, FALSE, TRUE>>,
     <<FALSE, TRUE, TRUE>>, <<TRUE, TRUE, FALSE>>}

\* process.stdout.columns || 130, process.stdout.rows || 24
DefaultCols == 130
DefaultRows == 24
Width(s) == IF s.cols = 0 THEN DefaultCols ELSE s.cols
Height(s) == IF s.rows = 0 THEN DefaultRows ELSE s.rows

\* what the formatters and renderFileTree return on the diffs and the widths
\* of the model, computed once
PoolWidths == {IF size[1] = 0 THEN DefaultCols ELSE size[1] : size \in Sizes}
Formatted ==
    [d \in DiffPool, sbs \in BOOLEAN, w \in PoolWidths |->
        IF sbs THEN formatSideBySide(d, w) ELSE formatInline(d, w)]
TreeLines ==
    [d \in DiffPool |->
        LET files == extractFiles(d, 1) IN
        IF Len(files) > 0 THEN renderFileTree(files) ELSE <<>>]

\* render: the rows the file tree panel takes
FileTreeHeight(s) ==
    IF s.fileTreeVisible /\ Len(TreeLines[s.currentDiff]) > 0
    THEN Min(Len(TreeLines[s.currentDiff]), Max(1, Height(s) - 5)) + 1
    ELSE 0

AllLines(s) == Formatted[s.currentDiff, s.sideBySide, Width(s)]

AvailableHeight(s) == Height(s) - 2 - FileTreeHeight(s)

MaxScroll(s) == Max(0, Len(AllLines(s)) - AvailableHeight(s))

\* render that lets scrollOffset fall below 0
renderUpperOnly(s) ==
    [s EXCEPT !.scrollOffset = Min(s.scrollOffset, MaxScroll(s)), !.renders = @ + 1]

\* render that lets scrollOffset pass maxScroll
renderLowerOnly(s) ==
    [s EXCEPT !.scrollOffset = Max(0, s.scrollOffset), !.renders = @ + 1]

\* the clamp that keeps the bound and forgets the offset
clampToBound(v, m) == Max(0, m)

\* Math.max(0, Math.min(scrollOffset, maxScroll))
clamp(v, m) == Max(0, Min(v, m))

\* render: what it does to the state is the clamp of scrollOffset; renders
\* counts the calls of the handler that runs
render(s) ==
    [s EXCEPT !.scrollOffset = clamp(s.scrollOffset, MaxScroll(s)), !.renders = @ + 1]

\* refreshDiff: currentDiff becomes what git prints now
refreshDiff(s, nd) == [s EXCEPT !.currentDiff = nd]

\* the lines after the while loop: everything is closed and restored
cleanup(s) ==
    [s EXCEPT !.pc = "done", !.keyHandler = 0, !.term = TermOff]

\* the top of the while loop: leave it, or register handleKeypress and wait
LoopTop(s) ==
    IF s.shouldExit THEN cleanup(s)
    ELSE [s EXCEPT !.wantCommit = FALSE, !.keyHandler = @ + 1, !.pc = "viewer"]

\* main once the keypress promise has resolved, up to its next await
AfterPromise(s) ==
    IF ~s.wantCommit THEN cleanup(s)
    ELSE IF ~s.apiKey THEN LoopTop([s EXCEPT !.shouldExit = TRUE])
    ELSE [s EXCEPT !.pc = "fetch"]

\* (process.stdout.rows || 24) - 2
PageDelta(s) == Height(s) - 2

Key(name, ctrl) == [name |-> name, ctrl |-> ctrl]

\* the "t" branch without its scrollOffset = 0
toggleFileTreeKeepsScroll(s) ==
    render([s EXCEPT !.fileTreeVisible = ~s.fileTreeVisible])

\* the "t" branch of handleKeypress
toggleFileTree(s) ==
    render([s EXCEPT !.fileTreeVisible = ~s.fileTreeVisible, !.scrollOffset = 0])

\* the quit test that does not look at the control modifier
isQuitNoCtrl(key) == key.name = "q"

\* key.name === "q" || (key.ctrl && key.name === "c")
isQuit(key) == key.name = "q" \/ (key.ctrl /\ key.name = "c")

\* the stage-all test that does not look at the mode
stagesAllAnyMode(s, key) == key.name = "a"

\* key.name === "a" && stagedMode
stagesAll(s, key) == key.name = "a" /\ s.stagedMode

\* an exception no one catches: the process ends where it is
crash(s) == [s EXCEPT !.pc = "crashed"]

\* handleKeypress; nd is the diff git prints should the key refresh it, addOk
\* whether execSync("git add .") returns (it throws when git fails)
\* the handler stays registered when its promise resolves
keepListener(n) == n

\* stdin.removeListener("keypress", handleKeypress)
removeListener(n) == n - 1

handleKeypress(s, key, nd, addOk) ==
    IF isQuit(key)
    THEN AfterPromise([s EXCEPT !.shouldExit = TRUE,
                                !.keyHandler = removeListener(@)])
    ELSE IF key.name = "c"
    THEN AfterPromise([s EXCEPT !.wantCommit = TRUE,
                                !.keyHandler = removeListener(@)])
    ELSE IF key.name = "s" THEN render([s EXCEPT !.sideBySide = TRUE])
    ELSE IF key.name = "i" THEN render([s EXCEPT !.sideBySide = FALSE])
    ELSE IF key.name = "m"
    THEN render([s EXCEPT !.mouseEnabled = ~s.mouseEnabled,
                          !.term.mouse = ~s.mouseEnabled])
    ELSE IF stagesAll(s, key)
    THEN IF addOk THEN render(refreshDiff(s, nd)) ELSE crash(s)
    ELSE IF key.name = "t" THEN toggleFileTree(s)
    ELSE IF key.name = "up" \/ key.name = "k"
    THEN render([s EXCEPT !.scrollOffset = @ - 1])
    ELSE IF key.name = "down" \/ key.name = "j"
    THEN render([s EXCEPT !.scrollOffset = @ + 1])
    ELSE IF key.name = "pageup" \/ (key.ctrl /\ key.name = "b") \/ key.name = "b"
    THEN render([s EXCEPT !.scrollOffset = @ - PageDelta(s)])
    ELSE IF key.name = "pagedown" \/ (key.ctrl /\ key.name = "f") \/ key.name = "f"
    THEN render([s EXCEPT !.scrollOffset = @ + PageDelta(s)])
    ELSE s

(***************************************************************************)
(* Input chunks.  A chunk is a sequence of characters; an SGR mouse report *)
(* is ESC [ < button ; col ; row M.                                        *)
(***************************************************************************)
ESC == "ESC"
DigitChars == {"0", "1", "4", "5", "6"}

Report(button) == <<ESC, "[", "<">> \o button \o <<";", "1", ";", "1", "M">>
WheelUp == <<"6", "4">>
WheelDown == <<"6", "5">>
LeftPress == <<"0">>
Buttons == {WheelUp, WheelDown, LeftPress}

\* the length of the run of digits of chunk from position i
RECURSIVE DigitRun(_, _)
DigitRun(chunk, i) ==
    IF i <= Len(chunk) /\ chunk[i] \in DigitChars THEN 1 + DigitRun(chunk, i + 1) ELSE 0

\* where /\x1b\[<(\d+);/ matches from
MatchesAt(chunk, i) ==
    /\ i + 4 <= Len(chunk)
    /\ chunk[i] = ESC /\ chunk[i + 1] = "[" /\ chunk[i + 2] = "<"
    /\ DigitRun(chunk, i + 3) >= 1
    /\ i + 3 + DigitRun(chunk, i + 3) <= Len(chunk)
    /\ chunk[i + 3 + DigitRun(chunk, i + 3)] = ";"

\* str.match(/\x1b\[<(\d+);/): match[1] of the leftmost match, <<>> for null
RegexMatch(chunk) ==
    LET at == {i \in 1..Len(chunk) : MatchesAt(chunk, i)} IN
    IF at = {} THEN <<>>
    ELSE LET i == CHOOSE x \in at : \A y \in at : x <= y
         IN  SubSeq(chunk, i + 3, i + 2 + DigitRun(chunk, i + 3))

\* mouseHandler, the first "data" listener
mouseHandler(s, chunk) ==
    LET m == RegexMatch(chunk) IN
    IF m # <<>> /\ s.mouseEnabled
    THEN IF m = WheelUp THEN render([s EXCEPT !.scrollOffset = @ - PageDelta(s)])
         ELSE IF m = WheelDown THEN render([s EXCEPT !.scrollOffset = @ + PageDelta(s)])
         ELSE s
    ELSE s

\* The second "data" listener is the key decoder emitKeypressEvents installs: a
\* listener's return does not keep a chunk from the listeners after it.  Of the
\* characters of a report the decoder makes key events: a letter is the key of
\* that name (M: name "m", shift), a digit the key of that digit, the others
\* keys without a name.
KeyOfChar(ch) ==
    IF ch \in {"M", "m"} THEN Key("m", FALSE)
    ELSE IF ch \in DigitChars THEN Key(ch, FALSE)
    ELSE Key("undefined", FALSE)

\* the keys of a chunk, from character i, given to handleKeypress while it is
\* registered
RECURSIVE emitKeys(_, _, _, _)
emitKeys(s, chunk, i, nd) ==
    IF i > Len(chunk) \/ s.keyHandler = 0 THEN s
    ELSE emitKeys(handleKeypress(s, KeyOfChar(chunk[i]), nd, TRUE), chunk, i + 1, nd)

\* a "data" event: both listeners, in the order they were registered
onData(s, chunk, nd) == emitKeys(mouseHandler(s, chunk), chunk, 1, nd)

\* the callback of timer id: the timer has fired, debounce keeps its id
onDebounce(s, nd, id) ==
    render([refreshDiff(s, nd) EXCEPT !.scrollOffset = 0,
                                      !.debounce.pending = @ \ {id}])

\* the watcher's callback without its clearTimeout
keepTimeout(d) == d

\* if (debounce) clearTimeout(debounce)
clearTimeout(d) == [d EXCEPT !.pending = @ \ {d.id}]

\* debounce = setTimeout(...): a timer with an id no pending timer has
setTimeout(d) ==
    LET id == CHOOSE n \in 1..(Cardinality(d.pending) + 1) :
                  n \notin d.pending /\ \A k \in 1..(n - 1) : k \in d.pending
    IN  [id |-> id, pending |-> d.pending \cup {id}]

\* the file names the watcher reports: none, one under .git/ that is neither
\* index nor HEAD, .git/index, a file of the work tree
WatchKinds == {"none", "gitdir", "gitindex", "file"}

\* the watcher's callback
onWatch(s, kind) ==
    IF kind = "none" \/ kind = "gitdir" THEN s
    ELSE [s EXCEPT !.debounce = setTimeout(clearTimeout(s.debounce))]

\* the "resize" listener is render; the terminal has its new size
onResize(s, size) == render([s EXCEPT !.cols = size[1], !.rows = size[2]])

\* the fetch settles: "neterr" (it throws), "apierr" (data.error), "empty"
\* (no message), "msg"
onFetch(s, outcome) ==
    IF outcome = "msg" THEN [s EXCEPT !.pc = "prompt"]
    ELSE LoopTop([s EXCEPT !.shouldExit = TRUE])

\* the flow's end that keeps scrollOffset when it goes back to the viewer
afterAnswerKeepsScroll(s, action, noMsg, commitOk, nd) ==
    IF (action = "n" \/ noMsg \/ commitOk) /\ s.watchMode
    THEN LoopTop(render(refreshDiff(s, nd)))
    ELSE LoopTop([s EXCEPT !.shouldExit = TRUE])

\* from rl.close() on: action is the answer, noMsg whether msg is empty,
\* commitOk whether git commit succeeds
afterAnswer(s, action, noMsg, commitOk, nd) ==
    IF action = "n" \/ noMsg
    THEN IF s.watchMode
         THEN LoopTop(render([refreshDiff(s, nd) EXCEPT !.scrollOffset = 0]))
         ELSE LoopTop([s EXCEPT !.shouldExit = TRUE])
    ELSE IF ~commitOk THEN LoopTop([s EXCEPT !.shouldExit = TRUE])
    ELSE IF s.watchMode
         THEN LoopTop(render([refreshDiff(s, nd) EXCEPT !.scrollOffset = 0]))
         ELSE LoopTop([s EXCEPT !.shouldExit = TRUE])

(***************************************************************************)
(* The viewer's state machine                                              *)
(***************************************************************************)
Keys ==
    {Key("q", FALSE), Key("c", TRUE), Key("c", FALSE), Key("s", FALSE),
     Key("i", FALSE), Key("m", FALSE), Key("a", FALSE), Key("t", FALSE),
     Key("up", FALSE), Key("k", FALSE), Key("down", FALSE), Key("j", FALSE),
     Key("pageup", FALSE), Key("b", TRUE), Key("b", FALSE),
     Key("pagedown", FALSE), Key("f", TRUE), Key("f", FALSE), Key("x", FALSE)}

\* the chunks stdin delivers besides keys: whole reports, and the two pieces
\* of a wheel-down report cut after k characters
Before(r, k) == SubSeq(r, 1, k)
After(r, k) == SubSeq(r, k + 1, Len(r))
Cuts == {3, 4, 6, 9}
Chunks ==
    {Report(b) : b \in Buttons}
        \cup {Before(Report(WheelDown), k) : k \in Cuts}
        \cup {After(Report(WheelDown), k) : k \in Cuts}

\* the terminal and the listeners while the viewer runs
TermOn(watch) ==
    [raw |-> TRUE, alt |-> TRUE, hidden |-> TRUE, mouse |-> TRUE,
     watcher |-> watch, resizeL |-> TRUE, dataL |-> TRUE]

\* main up to its first await: lines 111-247
Start(watch, staged, key, diff, size) ==
    LET s0 == [pc |-> "start", watchMode |-> watch, stagedMode |-> staged,
               apiKey |-> key, currentDiff |-> diff,
               sideBySide |-> FALSE, scrollOffset |-> 0, mouseEnabled |-> TRUE,
               fileTreeVisible |-> TRUE, wantCommit |-> FALSE, shouldExit |-> FALSE,
               cols |-> size[1], rows |-> size[2], keyHandler |-> 0,
               debounce |-> NoTimers, term |-> TermOff, renders |-> 0]
    IN  IF diff = NoChanges /\ ~watch THEN [s0 EXCEPT !.pc = "done"]
        ELSE LoopTop(render([s0 EXCEPT !.term = TermOn(watch)]))

Cur ==
    [pc |-> pc, watchMode |-> watchMode, stagedMode |-> stagedMode,
     apiKey |-> apiKey, currentDiff |-> currentDiff,
     sideBySide |-> sideBySide, scrollOffset |-> scrollOffset,
     mouseEnabled |-> mouseEnabled, fileTreeVisible |-> fileTreeVisible,
     wantCommit |-> wantCommit, shouldExit |-> shouldExit,
     cols |-> cols, rows |-> rows, keyHandler |-> keyHandler,
     debounce |-> debounce, term |-> term, renders |-> 0]

\* the state becomes s by event ev
Becomes(s, ev, arg) ==
    /\ pc' = s.pc /\ watchMode' = s.watchMode /\ stagedMode' = s.stagedMode
    /\ apiKey' = s.apiKey /\ currentDiff' = s.currentDiff
    /\ sideBySide' = s.sideBySide /\ scrollOffset' = s.scrollOffset
    /\ mouseEnabled' = s.mouseEnabled /\ fileTreeVisible' = s.fileTreeVisible
    /\ wantCommit' = s.wantCommit /\ shouldExit' = s.shouldExit
    /\ cols' = s.cols /\ rows' = s.rows /\ keyHandler' = s.keyHandler
    /\ debounce' = s.debounce /\ term' = s.term
    /\ last' = [ev |-> ev, arg |-> arg, renders |-> s.renders]
    /\ UNCHANGED fmtVars

Init ==
    \E cfg \in Configs, diff \in DiffPool, size \in Sizes :
        LET s == Start(cfg[1], cfg[2], cfg[3], diff, size) IN
        /\ pc = s.pc /\ watchMode = s.watchMode /\ stagedMode = s.stagedMode
        /\ apiKey = s.apiKey /\ currentDiff = s.currentDiff
        /\ sideBySide = s.sideBySide /\ scrollOffset = s.scrollOffset
        /\ mouseEnabled = s.mouseEnabled /\ fileTreeVisible = s.fileTreeVisible
        /\ wantCommit = s.wantCommit /\ shouldExit = s.shouldExit
        /\ cols = s.cols /\ rows = s.rows /\ keyHandler = s.keyHandler
        /\ debounce = s.debounce /\ term = s.term
        /\ last = [ev |-> "start", arg |-> "", renders |-> s.renders]
        /\ fdiff = NoChanges /\ fwidth = 8 /\ fres = NoResult

\* what git may print at a refresh this event makes
Fresh(refreshes) == IF refreshes THEN DiffPool ELSE {currentDiff}

\* the program has neither returned nor crashed
Running == pc \notin {"done", "crashed"}

\* the label of a commit flow's end
Outcome(action, noMsg, commitOk) ==
    [action |-> action,
     outcome |-> IF action = "n" \/ noMsg THEN "declined"
                 ELSE IF commitOk THEN "committed" ELSE "commitfails"]

\* a key arrives (its bytes match no mouse report); without a "keypress"
\* listener of the viewer it is the line editor's
KeyPress ==
    /\ Running /\ term.dataL
    /\ \E key \in Keys :
          IF keyHandler > 0
          THEN \E addOk \in (IF key.name = "a" /\ stagedMode THEN BOOLEAN ELSE {TRUE}) :
               \E nd \in Fresh(key.name = "a" /\ stagedMode /\ addOk) :
                  Becomes(handleKeypress(Cur, key, nd, addOk), "key", key)
          ELSE Becomes(Cur, "key", key)

\* a chunk of a mouse report arrives
Data ==
    /\ Running /\ term.dataL
    /\ \E chunk \in Chunks : Becomes(onData(Cur, chunk, currentDiff), "chunk", chunk)

Resize ==
    /\ Running /\ term.resizeL
    /\ \E size \in Sizes \ {<<cols, rows>>} : Becomes(onResize(Cur, size), "resize", size)

Watch ==
    /\ Running /\ term.watcher
    /\ \E kind \in WatchKinds : Becomes(onWatch(Cur, kind), "watch", kind)

\* a pending timer fires
Debounce ==
    /\ Running
    /\ \E id \in debounce.pending, nd \in DiffPool :
          Becomes(onDebounce(Cur, nd, id), "refresh", id)

Fetch ==
    /\ pc = "fetch"
    /\ \E outcome \in {"neterr", "apierr", "empty", "msg"} :
          Becomes(onFetch(Cur, outcome), "fetch", outcome)

\* the answer to "commit? (y/n/edit)"
Answer ==
    /\ pc = "prompt"
    /\ \/ Becomes([Cur EXCEPT !.pc = "edit"], "answer",
                  [action |-> "edit", outcome |-> "asked"])
       \/ \E nd \in Fresh(watchMode) :
             Becomes(afterAnswer(Cur, "n", FALSE, TRUE, nd), "answer",
                     Outcome("n", FALSE, TRUE))
       \/ \E action \in {"y", "other"}, commitOk \in BOOLEAN :
             \E nd \in Fresh(watchMode /\ commitOk) :
                Becomes(afterAnswer(Cur, action, FALSE, commitOk, nd), "answer",
                        Outcome(action, FALSE, commitOk))

\* the answer to "New message: "
Edit ==
    /\ pc = "edit"
    /\ \E noMsg \in BOOLEAN, commitOk \in BOOLEAN :
          \E nd \in Fresh(watchMode /\ (noMsg \/ commitOk)) :
             Becomes(afterAnswer(Cur, "edit", noMsg, commitOk, nd), "edit",
                     Outcome("edit", noMsg, commitOk))

Next ==
    \/ KeyPress
    \/ Data
    \/ Resize
    \/ Watch
    \/ Debounce
    \/ Fetch
    \/ Answer
    \/ Edit

Spec == Init /\ [][Next]_vars

(***************************************************************************)
(* Properties of the viewer                                                *)
(***************************************************************************)
ViewState == <<sideBySide, scrollOffset, mouseEnabled, fileTreeVisible>>

Clamp(v, s) == Max(0, Min(v, MaxScroll(s)))


\* this step is handleKeypress receiving a key of one of the names
KeyStep(names) == last'.ev = "key" /\ last'.arg.name \in names /\ keyHandler > 0
ChunkStep(chunks) == last'.ev = "chunk" /\ last'.arg \in chunks
WheelReports == {Report(WheelUp), Report(WheelDown)}

\* the scroll delta of the event of this step, 0 when it has none
StepDelta ==
    IF KeyStep({"up", "k"}) THEN 0 - 1
    ELSE IF KeyStep({"down", "j"}) THEN 1
    ELSE IF KeyStep({"pageup", "b"}) THEN 0 - PageDelta(Cur)
    ELSE IF KeyStep({"pagedown", "f"}) THEN PageDelta(Cur)
    ELSE IF ChunkStep({Report(WheelUp)}) /\ mouseEnabled THEN 0 - PageDelta(Cur)
    ELSE IF ChunkStep({Report(WheelDown)}) /\ mouseEnabled THEN PageDelta(Cur)
    ELSE 0

ScrollInRange == 0 <= scrollOffset /\ scrollOffset <= MaxScroll(Cur)

\* C1: in every state 0 <= scrollOffset <= maxScroll, with maxScroll =
\* max(0, lines of the current layout - visible height), and a scroll event
\* sets scrollOffset to scrollOffset + delta clamped to [0, maxScroll]
C1_ScrollOffsetClamped ==
    /\ []ScrollInRange
    /\ [][StepDelta # 0 => scrollOffset' = Clamp(scrollOffset + StepDelta, Cur)]_vars

\* a page down that went past the end: the page is larger than maxScroll
C1_Witness ==
    /\ last.ev = "key" /\ last.arg.name = "pagedown"
    /\ scrollOffset = MaxScroll(Cur) /\ 0 < scrollOffset
    /\ scrollOffset < PageDelta(Cur)

\* C2 as stated: "s" and "i" set the layout and scrollOffset stays what it was
C2_LayoutToggleKeepsScroll ==
    [][KeyStep({"s", "i"}) =>
          /\ sideBySide' = (last'.arg.name = "s")
          /\ scrollOffset' = scrollOffset]_vars

\* C2: "s" and "i" set the layout, and scrollOffset becomes the smaller of
\* what it was and the maxScroll of the new layout
C2_LayoutToggleReclampsScroll ==
    [][KeyStep({"s", "i"}) =>
          /\ sideBySide' = (last'.arg.name = "s")
          /\ scrollOffset' =
                Min(scrollOffset,
                    MaxScroll([Cur EXCEPT !.sideBySide = (last'.arg.name = "s")]))
          /\ UNCHANGED <<mouseEnabled, fileTreeVisible>>]_vars

\* after "s", at the end of a side-by-side view shorter than the inline one
C2_Witness ==
    /\ last.ev = "key" /\ last.arg.name = "s" /\ sideBySide
    /\ scrollOffset = MaxScroll(Cur) /\ scrollOffset > 0
    /\ MaxScroll([Cur EXCEPT !.sideBySide = FALSE]) > MaxScroll(Cur)

\* C3: "t" flips fileTreeVisible, leaves scrollOffset 0 and changes neither
\* the layout nor mouseEnabled
C3_TreeToggleResetsScroll ==
    [][KeyStep({"t"}) =>
          /\ fileTreeVisible' = ~fileTreeVisible
          /\ scrollOffset' = 0
          /\ UNCHANGED <<sideBySide, mouseEnabled>>]_vars

\* after "t" hid the panel of a view that can scroll
C3_Witness ==
    /\ last.ev = "key" /\ last.arg.name = "t" /\ ~fileTreeVisible
    /\ scrollOffset = 0 /\ MaxScroll(Cur) > 0
    /\ sideBySide /\ ~mouseEnabled

\* C4: a wheel report cut after any character and delivered as two chunks
\* leaves the scrollOffset the whole report leaves
C4_SplitReportAsWhole ==
    term.dataL =>
        \A b \in {WheelUp, WheelDown} : \A k \in 1..(Len(Report(b)) - 1) :
            onData(onData(Cur, Before(Report(b), k), currentDiff),
                   After(Report(b), k), currentDiff).scrollOffset
                = onData(Cur, Report(b), currentDiff).scrollOffset

\* C5: a report changes scrollOffset only when mouseEnabled and its button
\* is 64 or 65; any other report, and any report while the mouse is off,
\* leaves layout, scrollOffset, mouseEnabled and fileTreeVisible as they were
C5_OtherReportsChangeNothing ==
    [][ChunkStep({Report(b) : b \in Buttons}) =>
          /\ scrollOffset' # scrollOffset => mouseEnabled /\ last'.arg \in WheelReports
          /\ ~mouseEnabled \/ last'.arg \notin WheelReports => UNCHANGED ViewState]_vars

\* lines a wheel notch scrolls, as the README states it
WheelNotch == 3

\* C6: with the mouse on, a wheel report moves scrollOffset by 3 lines,
\* clamped, whatever the terminal's height
C6_WheelScrollsThreeLines ==
    [][ChunkStep(WheelReports) /\ mouseEnabled =>
          scrollOffset' =
              Clamp(scrollOffset + (IF last'.arg = Report(WheelUp)
                                    THEN 0 - WheelNotch ELSE WheelNotch), Cur)]_vars

Pending == {"fetch", "prompt", "edit"}
FlowEnds(outcomes) == last'.ev \in {"answer", "edit"} /\ last'.arg.outcome \in outcomes

DraftFailure ==
    \/ last'.ev = "fetch" /\ last'.arg \in {"neterr", "apierr", "empty"}
    \/ KeyStep({"c"}) /\ ~last'.arg.ctrl /\ ~apiKey

\* C15 as claimed: in watch mode a failure of the commit draft (no
\* credential, network failure, error response, empty response) leaves the
\* ViewState as it was and the viewer running with a key handler
C15_DraftFailureKeepsViewer ==
    [][(watchMode /\ DraftFailure) =>
          pc' = "viewer" /\ keyHandler' > 0 /\ UNCHANGED ViewState]_vars

QuitStep ==
    last'.ev = "key" /\ (last'.arg.name = "q" \/ (last'.arg.ctrl /\ last'.arg.name = "c"))

\* C16 as claimed: in every state of the running program a quit key ends it
C16_QuitHonouredEverywhere == [][QuitStep => pc' = "done"]_vars

\* C17 as claimed: once the program has terminated the terminal is restored
\* (mouse reporting off, primary buffer, cursor shown, raw mode off), the
\* watcher closed and the listeners removed
C17_TerminalRestoredAtExit == pc \in {"done", "crashed"} => term = TermOff

\* C18 as claimed: while the commit flow is pending no key, chunk, resize,
\* file notification or timer changes the ViewState or the current diff
C18_FrozenWhilePending ==
    [][(pc \in Pending /\ last'.ev \in {"key", "chunk", "resize", "watch", "refresh"}) =>
          UNCHANGED <<ViewState, currentDiff>>]_vars

\* C19: at most one debounce timer is pending; an accepted notification
\* leaves exactly the timer it started; a notification without a file name
\* or under .git/ (index and HEAD aside) changes no timer; a refresh is the
\* firing of the one pending timer, leaves none and renders from scrollOffset
\* 0; nothing else starts or ends a timer
C19_DebounceCoalesces ==
    /\ [](Cardinality(debounce.pending) <= 1 /\ (~watchMode => debounce = NoTimers))
    /\ [][/\ (last'.ev = "watch" /\ last'.arg \in {"gitindex", "file"}) =>
                debounce'.id # 0 /\ debounce'.pending = {debounce'.id}
          /\ (last'.ev = "watch" /\ last'.arg \in {"none", "gitdir"}) =>
                UNCHANGED <<debounce, ViewState, currentDiff>>
          /\ last'.ev = "refresh" =>
                /\ debounce.pending = {last'.arg} /\ debounce'.pending = {}
                /\ scrollOffset' = 0 /\ currentDiff' \in DiffPool
          /\ debounce' # debounce => last'.ev \in {"watch", "refresh"}]_vars

\* the timer of a notification has fired and the view shows the new diff
C19_Witness ==
    /\ watchMode /\ last.ev = "refresh" /\ debounce.id = 1 /\ debounce.pending = {}
    /\ currentDiff = PoolTwo /\ scrollOffset = 0 /\ pc = "viewer"

(***************************************************************************)
(* The clamp of render applied to offsets and bounds (SpecClamp)           *)
(***************************************************************************)
MaxOffset == 5

RunClamp ==
    /\ fres.op = "none"
    /\ \E m \in 0..MaxOffset :
          fres' = [op |-> "clamp", out |-> <<m, clamp(scrollOffset, m)>>]
    /\ UNCHANGED <<fdiff, fwidth>>

RunClampAgain ==
    /\ fres.op = "clamp"
    /\ fres' = [op |-> "clamp2", out |-> <<fres.out[1], clamp(fres.out[2], fres.out[1])>>]
    /\ UNCHANGED <<fdiff, fwidth>>

ClampInit ==
    /\ scrollOffset \in (0 - MaxOffset)..(2 * MaxOffset)
    /\ fdiff = NoChanges /\ fwidth = 8 /\ fres = NoResult
    /\ pc = "done" /\ watchMode = FALSE /\ stagedMode = FALSE
    /\ currentDiff = NoChanges
    /\ sideBySide = FALSE /\ mouseEnabled = TRUE
    /\ fileTreeVisible = TRUE /\ wantCommit = FALSE /\ shouldExit = FALSE
    /\ cols = 0 /\ rows = 0 /\ keyHandler = 0 /\ debounce = NoTimers
    /\ apiKey = FALSE /\ term = TermOff
    /\ last = [ev |-> "start", arg |-> "", renders |-> 0]

ClampNext ==
    \/ RunClamp /\ UNCHANGED uiVars
    \/ RunClampAgain /\ UNCHANGED uiVars

SpecClamp == ClampInit /\ [][ClampNext]_vars

\* C20: clamping twice gives what clamping once gives, the result is in
\* [0, maxScroll], and an offset already there is returned unchanged
C20_ClampIdempotent ==
    /\ fres.op = "clamp" =>
          /\ 0 <= fres.out[2] /\ fres.out[2] <= fres.out[1]
          /\ (0 <= scrollOffset /\ scrollOffset <= fres.out[1]) => fres.out[2] = scrollOffset
    /\ fres.op = "clamp2" =>
          /\ fres.out[2] = clamp(scrollOffset, fres.out[1])
          /\ fres.out[2] = Max(0, Min(scrollOffset, fres.out[1]))

\* an offset above the bound, clamped twice
C20_Witness ==
    /\ fres.op = "clamp2" /\ fres.out[1] > 0 /\ scrollOffset > fres.out[1]
    /\ fres.out[2] = fres.out[1]

\* C21: "a" stages all only in staged mode, where the diff is refreshed and
\* rendered once (or git fails); in any other mode an "a" key makes no render
\* and changes neither the ViewState nor the diff nor the program's position
C21_StageAllOnlyInStagedMode ==
    [][KeyStep({"a"}) =>
          IF stagedMode
          THEN \/ pc' = "crashed"
               \/ /\ last'.renders = 1 /\ currentDiff' \in DiffPool /\ pc' = pc
                  /\ UNCHANGED <<sideBySide, mouseEnabled, fileTreeVisible>>
          ELSE /\ last'.renders = 0
               /\ UNCHANGED <<ViewState, currentDiff, pc, keyHandler, term, debounce>>]_vars

\* "a" was pressed outside staged mode in a scrolled side-by-side view
C21_Witness ==
    /\ last.ev = "key" /\ last.arg.name = "a" /\ ~stagedMode /\ last.renders = 0
    /\ pc = "viewer" /\ scrollOffset > 0 /\ sideBySide

\* C22: a "c" key with the control modifier sets the exit flag, leaves
\* wantCommit false and ends the program; a "c" key without it sets
\* wantCommit, and nothing else does
C22_ControlCQuits ==
    [][/\ (KeyStep({"c"}) /\ last'.arg.ctrl) =>
             shouldExit' /\ ~wantCommit' /\ pc' = "done"
       /\ (KeyStep({"c"}) /\ ~last'.arg.ctrl) => wantCommit'
       /\ (wantCommit' /\ ~wantCommit) => (KeyStep({"c"}) /\ ~last'.arg.ctrl)]_vars

\* the control combination ended a program that could have drafted a commit
C22_Witness ==
    /\ last.ev = "key" /\ last.arg = Key("c", TRUE) /\ apiKey
    /\ pc = "done" /\ shouldExit /\ ~wantCommit /\ term = TermOff

\* C25: in full-screen mode mouse reporting is on exactly when mouseEnabled
\* is true, an m key flips the flag, and nothing but an m key changes the
\* flag or the reporting state
C25_MouseReportingFollowsFlag ==
    [][/\ (Running' /\ term'.alt) => term'.mouse = mouseEnabled'
       /\ KeyStep({"m"}) => mouseEnabled' = ~mouseEnabled
       /\ (Running' /\ (mouseEnabled' # mouseEnabled \/ term'.mouse # term.mouse))
             => KeyStep({"m"})]_vars

\* C26: at most one handleKeypress is registered: exactly one while the
\* viewer waits for a key, none while the commit flow runs and none after
\* the exit, and one is registered only when a commit flow returns to the
\* viewer
C26_AtMostOneKeyHandler ==
    [][/\ keyHandler' \in {0, 1}
       /\ pc' = "viewer" => keyHandler' = 1
       /\ pc' \in Pending \cup {"done"} => keyHandler' = 0
       /\ keyHandler' > keyHandler =>
             /\ pc \in Pending /\ pc' = "viewer" /\ keyHandler = 0
             /\ FlowEnds({"declined", "committed"})]_vars

\* the viewer waits for keys again after an edited message was dropped, with
\* one handler
C26_Witness ==
    /\ last.ev = "edit" /\ last.arg.outcome = "declined" /\ watchMode
    /\ pc = "viewer" /\ keyHandler = 1 /\ ~wantCommit /\ term.dataL

(***************************************************************************)
(* One render at every terminal height (SpecRender)                        *)
(***************************************************************************)
MaxRows == 8

\* a.slice(start, end) of an array: a negative index counts from the end
slice(a, start, end) ==
    LET from == IF start < 0 THEN Max(Len(a) + start, 0) ELSE Min(start, Len(a))
        to == IF end < 0 THEN Max(Len(a) + end, 0) ELSE Min(end, Len(a))
    IN  SubSeq(a, from + 1, to)

\* render: the tree rows it writes under the title row
treeLines(s) ==
    IF s.fileTreeVisible /\ Len(TreeLines[s.currentDiff]) > 0
    THEN slice(TreeLines[s.currentDiff], 0, Max(1, Height(s) - 5))
    ELSE <<>>

\* render: what it writes and the heights it computes, s being the state it
\* leaves
Frame(s) ==
    [op |-> "render",
     tree |-> treeLines(s),
     fileTreeHeight |-> FileTreeHeight(s),
     availableHeight |-> AvailableHeight(s),
     out |-> slice(AllLines(s), s.scrollOffset, s.scrollOffset + AvailableHeight(s))]

RunRender ==
    /\ fres.op = "none"
    /\ LET s == render(Cur) IN
          /\ fres' = Frame(s)
          /\ scrollOffset' = s.scrollOffset
          /\ last' = [ev |-> "render", arg |-> "", renders |-> s.renders]
    /\ UNCHANGED <<pc, watchMode, stagedMode, currentDiff, sideBySide, mouseEnabled,
                   fileTreeVisible, wantCommit, shouldExit, cols, rows, keyHandler,
                   debounce, apiKey, term, fdiff, fwidth>>

RenderInit ==
    /\ currentDiff \in DiffPool /\ rows \in 0..MaxRows /\ cols \in {0, 16}
    /\ fileTreeVisible \in BOOLEAN /\ sideBySide \in BOOLEAN
    /\ scrollOffset \in (0 - 1)..(2 * MaxOffset)
    /\ fdiff = NoChanges /\ fwidth = 8 /\ fres = NoResult
    /\ pc = "viewer" /\ watchMode = FALSE /\ stagedMode = FALSE
    /\ mouseEnabled = TRUE /\ wantCommit = FALSE /\ shouldExit = FALSE
    /\ keyHandler = 1 /\ debounce = NoTimers
    /\ apiKey = FALSE /\ term = TermOn(FALSE)
    /\ last = [ev |-> "start", arg |-> "", renders |-> 0]

RenderNext == RunRender

SpecRender == RenderInit /\ [][RenderNext]_vars

\* C28: in every render the tree panel's height plus the diff window's height
\* is the terminal height - 2, the panel has at most max(1, height - 5) rows
\* and a title row, the diff lines written are at most the window's height
\* (none when the height is below 0), and from height 5 on the window has at
\* least 1 row
C28_RenderFitsWindow ==
    fres.op = "render" =>
        /\ fres.fileTreeHeight + fres.availableHeight = Height(Cur) - 2
        /\ Len(fres.tree) <= Max(1, Height(Cur) - 5)
        /\ fres.fileTreeHeight = (IF Len(fres.tree) > 0 THEN Len(fres.tree) + 1 ELSE 0)
        /\ Len(fres.out) <= Max(0, fres.availableHeight)
        /\ Height(Cur) >= 5 => fres.availableHeight >= 1

(***************************************************************************)
(* The viewer of src/diff.ts (SpecDiffTs): it has no file tree and no      *)
(* staged mode, it restores the terminal when the key promise resolves and *)
(* runs the commit flow after that, once.  Its formatSideBySide, its       *)
(* watcher callback and its quit test are those of the viewer above.       *)
(***************************************************************************)
\* the map callback of formatInline: a file header is one string that holds
\* the blank line, the divider and the file name
InlineOf_ts(line) ==
    IF IsFileHeader(line)
    THEN <<[NoLine EXCEPT !.t = "fileblock", !.name = extractFileName(line)]>>
    ELSE IF IsHunkHeader(line) /\ cleanHunkHeader(line) = "" THEN <<Blank>>
    ELSE InlineOf(line)

RECURSIVE MapInline_ts(_, _)
MapInline_ts(lines, i) ==
    IF i > Len(lines) THEN <<>>
    ELSE (IF IsMetaLine(lines[i]) THEN <<>> ELSE InlineOf_ts(lines[i]))
         \o MapInline_ts(lines, i + 1)

formatInline_ts(diffText, width) ==
    SelectSeq(MapInline_ts(diffText, 1), NotEmptyString)

Formatted_ts ==
    [d \in DiffPool, sbs \in BOOLEAN, w \in PoolWidths |->
        IF sbs THEN formatSideBySide(d, w) ELSE formatInline_ts(d, w)]

\* render: the clamp of scrollOffset against allLines.length - (h - 2)
render_ts(s) ==
    [s EXCEPT !.scrollOffset =
                  clamp(@, Max(0, Len(Formatted_ts[s.currentDiff, s.sideBySide, Width(s)])
                                    - (Height(s) - 2))),
              !.renders = @ + 1]

\* process.exit
exit_ts(s) ==
    [s EXCEPT !.pc = "done", !.keyHandler = 0, !.term.resizeL = FALSE,
              !.term.dataL = FALSE, !.debounce.pending = {}]

\* main returns: rl.close() has paused stdin, the process lives while a timer
\* is pending
return_ts(s) ==
    IF s.debounce.pending = {} THEN exit_ts(s)
    ELSE [s EXCEPT !.pc = "returned", !.term.dataL = FALSE]

\* main once the key promise has resolved, up to its next await: the watcher
\* is closed and the terminal restored, the listeners and the timer stay
afterPromise_ts(s) ==
    LET r == [s EXCEPT !.term.watcher = FALSE, !.term.mouse = FALSE,
                       !.term.alt = FALSE, !.term.hidden = FALSE,
                       !.term.raw = FALSE]
    IN  IF ~r.wantCommit \/ ~r.apiKey THEN exit_ts(r)
        ELSE [r EXCEPT !.pc = "fetch"]

\* resolve(): a promise resolves once
resolve_ts(s) == IF s.pc = "viewer" THEN afterPromise_ts(s) ELSE s

\* the "keypress" listener, registered once and never removed
handleKeypress_ts(s, key) ==
    IF isQuit(key) THEN resolve_ts(s)
    ELSE IF key.name = "c" THEN resolve_ts([s EXCEPT !.wantCommit = TRUE])
    ELSE IF key.name = "s" THEN render_ts([s EXCEPT !.sideBySide = TRUE])
    ELSE IF key.name = "i" THEN render_ts([s EXCEPT !.sideBySide = FALSE])
    ELSE IF key.name = "m"
    THEN render_ts([s EXCEPT !.mouseEnabled = ~s.mouseEnabled,
                             !.term.mouse = ~s.mouseEnabled])
    ELSE IF key.name = "up" \/ key.name = "k"
    THEN render_ts([s EXCEPT !.scrollOffset = @ - 1])
    ELSE IF key.name = "down" \/ key.name = "j"
    THEN render_ts([s EXCEPT !.scrollOffset = @ + 1])
    ELSE IF key.name = "pageup" \/ (key.ctrl /\ key.name = "b")
    THEN render_ts([s EXCEPT !.scrollOffset = @ - 20])
    ELSE IF key.name = "pagedown" \/ (key.ctrl /\ key.name = "f")
    THEN render_ts([s EXCEPT !.scrollOffset = @ + 20])
    ELSE s

mouseHandler_ts(s, chunk) ==
    LET m == RegexMatch(chunk) IN
    IF ~s.mouseEnabled THEN s
    ELSE IF m = WheelUp THEN render_ts([s EXCEPT !.scrollOffset = @ - 3])
    ELSE IF m = WheelDown THEN render_ts([s EXCEPT !.scrollOffset = @ + 3])
    ELSE s

RECURSIVE emitKeys_ts(_, _, _)
emitKeys_ts(s, chunk, i) ==
    IF i > Len(chunk) \/ s.keyHandler = 0 THEN s
    ELSE emitKeys_ts(handleKeypress_ts(s, KeyOfChar(chunk[i])), chunk, i + 1)

onData_ts(s, chunk) == emitKeys_ts(mouseHandler_ts(s, chunk), chunk, 1)

onWatch_ts(s, kind) == onWatch(s, kind)

onDebounce_ts(s, nd, id) ==
    LET r == render_ts([refreshDiff(s, nd) EXCEPT !.scrollOffset = 0,
                                                  !.debounce.pending = @ \ {id}])
    IN  IF r.pc = "returned" THEN return_ts(r) ELSE r

onResize_ts(s, size) == render_ts([s EXCEPT !.cols = size[1], !.rows = size[2]])

\* the fetch settles: a network error is caught and main returns, an API
\* error or an empty message ends the process
onFetch_ts(s, outcome) ==
    IF outcome = "msg" THEN [s EXCEPT !.pc = "prompt"]
    ELSE IF outcome = "neterr" THEN return_ts(s)
    ELSE exit_ts(s)

\* from rl.close() on
afterAnswer_ts(s, action, noMsg) ==
    IF action = "n" \/ noMsg THEN exit_ts(s) ELSE return_ts(s)

\* main up to its first await
Start_ts(watch, key, diff, size) ==
    LET s0 == [pc |-> "start", watchMode |-> watch, stagedMode |-> FALSE,
               apiKey |-> key, currentDiff |-> diff,
               sideBySide |-> FALSE, scrollOffset |-> 0, mouseEnabled |-> TRUE,
               fileTreeVisible |-> FALSE, wantCommit |-> FALSE, shouldExit |-> FALSE,
               cols |-> size[1], rows |-> size[2], keyHandler |-> 0,
               debounce |-> NoTimers, term |-> TermOff, renders |-> 0]
    IN  IF diff = NoChanges /\ ~watch THEN [s0 EXCEPT !.pc = "done"]
        ELSE [render_ts([s0 EXCEPT !.term = TermOn(watch)])
                 EXCEPT !.pc = "viewer", !.keyHandler = 1]

Init_ts ==
    \E watch \in BOOLEAN, key \in BOOLEAN, diff \in DiffPool, size \in Sizes :
        LET s == Start_ts(watch, key, diff, size) IN
        /\ pc = s.pc /\ watchMode = s.watchMode /\ stagedMode = s.stagedMode
        /\ apiKey = s.apiKey /\ currentDiff = s.currentDiff
        /\ sideBySide = s.sideBySide /\ scrollOffset = s.scrollOffset
        /\ mouseEnabled = s.mouseEnabled /\ fileTreeVisible = s.fileTreeVisible
        /\ wantCommit = s.wantCommit /\ shouldExit = s.shouldExit
        /\ cols = s.cols /\ rows = s.rows /\ keyHandler = s.keyHandler
        /\ debounce = s.debounce /\ term = s.term
        /\ last = [ev |-> "start", arg |-> "", renders |-> s.renders]
        /\ fdiff = NoChanges /\ fwidth = 8 /\ fres = NoResult

\* main has not returned: stdin delivers what is typed
Live_ts == pc \in {"viewer"} \cup Pending

\* a key arrives; during the prompts it is one of the characters typed
KeyPress_ts ==
    /\ Live_ts /\ term.dataL
    /\ \E key \in Keys : Becomes(handleKeypress_ts(Cur, key), "key", key)

\* a chunk of a mouse report arrives: the terminal reports the mouse
Data_ts ==
    /\ Live_ts /\ term.dataL /\ term.mouse
    /\ \E chunk \in Chunks : Becomes(onData_ts(Cur, chunk), "chunk", chunk)

Resize_ts ==
    /\ Live_ts /\ term.resizeL
    /\ \E size \in Sizes \ {<<cols, rows>>} :
          Becomes(onResize_ts(Cur, size), "resize", size)

Watch_ts ==
    /\ Live_ts /\ term.watcher
    /\ \E kind \in WatchKinds : Becomes(onWatch_ts(Cur, kind), "watch", kind)

Debounce_ts ==
    /\ pc # "done"
    /\ \E id \in debounce.pending, nd \in DiffPool :
          Becomes(onDebounce_ts(Cur, nd, id), "refresh", id)

Fetch_ts ==
    /\ pc = "fetch"
    /\ \E outcome \in {"neterr", "apierr", "empty", "msg"} :
          Becomes(onFetch_ts(Cur, outcome), "fetch", outcome)

Answer_ts ==
    /\ pc = "prompt"
    /\ \/ Becomes([Cur EXCEPT !.pc = "edit"], "answer",
                  [action |-> "edit", outcome |-> "asked"])
       \/ \E action \in {"n", "y", "other"}, commitOk \in BOOLEAN :
             Becomes(afterAnswer_ts(Cur, action, FALSE), "answer",
                     Outcome(action, FALSE, commitOk))

Edit_ts ==
    /\ pc = "edit"
    /\ \E noMsg \in BOOLEAN, commitOk \in BOOLEAN :
          Becomes(afterAnswer_ts(Cur, "edit", noMsg), "edit",
                  Outcome("edit", noMsg, commitOk))

Next_ts ==
    \/ KeyPress_ts
    \/ Data_ts
    \/ Resize_ts
    \/ Watch_ts
    \/ Debounce_ts
    \/ Fetch_ts
    \/ Answer_ts
    \/ Edit_ts

SpecDiffTs == Init_ts /\ [][Next_ts]_vars

\* C27: once the restore sequence is written (the alternate buffer is left)
\* no event calls render: no timer, watcher callback, resize, mouse report or
\* key redraws the screen afterwards
C27_NoRenderAfterRestore ==
    [][~term.alt => last'.renders = 0]_vars

====
